---------------------------- MODULE Spec2Model ----------------------------
(***************************************************************************)
(* A model of pygamelib/gfx/ui.py: the keystroke loops of                  *)
(* LineInputDialog.show() and MultiLineInputDialog.show(), the fields      *)
(* setter of MultiLineInputDialog, and ProgressBar.render_to_buffer().     *)
(*                                                                         *)
(* Text is a sequence of one-character strings, so "ab" is <<"a", "b">>.  *)
(* A key event is the string blessed gives it: its name for a named key,   *)
(* the character itself for an unnamed one, "" for a poll that timed out.  *)
(***************************************************************************)
EXTENDS Integers, Sequences, FiniteSets, TLC

\* ------------------------------------------------------------------ bounds
\* Keys (timeouts excluded) one LineInputDialog.show() reads at most.
MaxKeys == 4
\* Longest input buffer of a MultiLineInputDialog field.
MaxLen == 1
\* Longest field list a MultiLineInputDialog is given.
MaxFields == 3

\* ProgressBar.value ranges over -MaxValue..MaxValue.
MaxValue == 4
\* ProgressBar.maximum ranges over 0..MaxMaximum.
MaxMaximum == 3
\* ProgressBar.width ranges over 0..MaxWidth.
MaxWidth == 3
MaxTitle == 3
MaxBoxWidth == 20
MaxBoxHeight == 3
MaxAt == 1
MaxPdValue == 1
MaxPdWidth == 2
\* UiConfig objects created in one run.
MaxConfigs == 3

\* -------------------------------------------------------------- key events
NoKey == ""

NamedKeys ==
  {"KEY_ENTER", "KEY_ESCAPE", "KEY_BACKSPACE", "KEY_DELETE", "KEY_TAB"}

CharKeys == {"a", "1"}

Keys == NamedKeys \cup CharKeys

\* inkey.name: None for a plain character.
Name(k) == IF k \in NamedKeys THEN k ELSE "None"

\* inkey.isprintable(): the text of a named key is a control sequence.
IsPrintable(k) == k \in {"a", "1"}

\* inkey.isdigit()
IsDigit(k) == k = "1"

PRINTABLE_FILTER == "PRINTABLE_FILTER"
INTEGER_FILTER == "INTEGER_FILTER"
Filters == {PRINTABLE_FILTER, INTEGER_FILTER}

\* ------------------------------------------------------------------ values
\* Two UiConfig objects with different glyphs and colours; the value of an
\* attribute is named after its object.
UiConfigs == {"cfg1", "cfg2"}

Attr(config, name) == config \o "." \o name

\* core.Sprixel(model, bg_color, fg_color): one cell.
Sprixel(model, bg_color, fg_color) ==
  [model |-> model, bg_color |-> bg_color, fg_color |-> fg_color]

\* base.Text(text, fg_color, bg_color)
Text(text, fg_color, bg_color) ==
  [type |-> "Text", text |-> text, fg_color |-> fg_color,
   bg_color |-> bg_color]

\* A str argument.
Str(text) == [type |-> "str", text |-> text]

\* An int argument.
PyInt(n) == [type |-> "int", v |-> n]

\* An argument of a type no setter takes for this property.
Other(type) == [type |-> type]

\* graphics.GeometricShapes.BLACK_RECTANGLE and " ", the default markers.
BLACK_RECTANGLE == Str(<<"#">>)
SPACE == Str(<<" ">>)

\* A marker that is a core.Sprixel already.
SprixelMarker ==
  [type |-> "Sprixel",
   cell |-> Sprixel("*", "own.bg_color", "own.fg_color")]

\* UiConfig.__instance = None: no instance is stored. (Objects are the
\* indices 1, 2, ... of the heap.)
None == 0

\* What a call that returns nothing returns.
ReturnedNone == Other("NoneType")

\* --------------------------------------------------------------- variables
VARIABLES
  dialog,         \* which widget was constructed: "line", "multi", "bar", "box",
                  \* "progress", or "none" before any constructor call
  pc,             \* where show() is: "idle", "loop", "poll", "done", "raised"
  inkey,          \* show()'s local variable inkey
  keys,           \* history: the keys LineInputDialog.show() has read
  ret,            \* what show() returned (LineInputDialog: the text)
  calls,          \* screen calls made since the last poll / by the last setter
  raised,         \* the exception the last operation ended with, or "none"
  default,        \* LineInputDialog.__default
  user_input,     \* Dialog._user_input of the LineInputDialog
  filter,         \* LineInputDialog.__filter
  fields,         \* MultiLineInputDialog.__fields
  current_field,  \* MultiLineInputDialog.__current_field (0-based)
  pb,             \* the ProgressBar: value, maximum, width
  op,             \* the last operation on the bar: "init", "render", a setter
  column,         \* the column argument of the last render_to_buffer()
  buffer,         \* buffer[row] after it: the cell at index i is buffer[i + 1]
  pb_style,       \* the ProgressBar: progress_marker, empty_marker, config
  arg,            \* the type of the argument of the last ProgressBar setter
  got,            \* what the last operation on the ProgressBar returned
  box,            \* the Box: width, height, title, config
  box_cache,      \* Box._cache
  box_op,         \* the last operation on the Box and the type of its argument
  at,             \* <<row, column>> of the last Box.render_to_buffer()
  grid,           \* its buffer after it: the cell (r, c) is grid[r + 1][c + 1]
  pd,             \* the ProgressDialog: label, value, maximum, width, flags
  pd_cache,       \* ProgressDialog._cache: label, pb (a ProgressBar), borders
  pd_op,          \* the last operation on it and the type of its argument
  pd_at,          \* <<row, column>> of the last ProgressDialog.render_to_buffer()
  pd_grid,        \* its buffer after it
  made,           \* the object the last constructor call yielded
  new_op,         \* the class of that call and the type of its config
  configs,        \* the UiConfig objects created so far, in order of creation
  instance,       \* UiConfig.__instance: None, or the index of an object
  cfg_op,         \* the last call on UiConfig: its name and its arguments
  cfg_ret,        \* the object it returned (an index), None if it raised
  lists,          \* the list objects that are fields of some dialog
  dlgs,           \* two MultiLineInputDialogs: __fields (an index into
                  \* lists) and __current_field of each
  showing,        \* the dialog whose show() is running, or 0
  pair_op,        \* the last operation on one of the two, and on which
  lid,            \* a LineInputDialog: __label, user_input, _config
  lid_op,         \* the last operation on it and its argument
  lid_at,         \* <<row, column>> of its last render_to_buffer()
  lid_grid        \* its buffer after it

showVars == <<pc, inkey, keys, ret>>
lineVars == <<default, user_input, filter>>
multiVars == <<fields, current_field>>
barVars == <<pb, op, column, buffer, pb_style, arg, got>>
boxVars == <<box, box_cache, box_op, at, grid>>
progVars == <<pd, pd_cache, pd_op, pd_at, pd_grid>>
newVars == <<made, new_op>>
cfgVars == <<configs, instance, cfg_op, cfg_ret>>
\* What the actions of the widgets leave alone.
pairVars == <<lists, dlgs, showing, pair_op>>
labelVars == <<lid, lid_op, lid_at, lid_grid>>
otherVars == <<newVars, cfgVars, pairVars, labelVars>>
vars ==
  <<dialog, showVars, calls, raised, lineVars, multiVars, barVars, boxVars,
    progVars, otherVars>>

\* ----------------------------------------------------- shared loop pieces
\* A slip of DropLast: [1:], which drops the first character.
DropLastWrong(s) == IF s = <<>> THEN s ELSE Tail(s)

\* user_input[:-1]: drops the last character, "" stays "".
DropLast(s) == SubSeq(s, 1, Len(s) - 1)

\* A slip of Accepts: the filter is not looked at.
AcceptsAnyPrintable(flt, k) == IsPrintable(k)

\* The filter test of the last elif of both show() loops.
Accepts(flt, k) ==
  \/ flt = PRINTABLE_FILTER /\ IsPrintable(k)
  \/ flt = INTEGER_FILTER /\ IsDigit(k)

\* A slip of Redraw: screen.update() is left out.
RedrawNoUpdate == <<"trigger_rendering">>

\* screen.trigger_rendering(); screen.update() after a mutation.
Redraw == <<"trigger_rendering", "update">>

\* inkey.name == "KEY_BACKSPACE" or inkey.name == "KEY_DELETE"
IsEraseKey(k) == Name(k) = "KEY_BACKSPACE" \/ Name(k) = "KEY_DELETE"

\* A slip of Cleared: the text is kept.
EscapeKeeps(s) == s

\* user_input = "" on Escape: what is left of the text s.
Cleared(s) == <<>>

\* --------------------------------------------------------- LineInputDialog
\* str(default) of the constructor.
LineDefaults == {<<>>, <<"a">>}

IdleShow ==
  /\ pc = "idle"
  /\ inkey = NoKey
  /\ keys = <<>>
  /\ ret = <<>>
  /\ calls = <<>>
  /\ raised = "none"

IdleLine == default = <<>> /\ user_input = <<>> /\ filter = PRINTABLE_FILTER

IdleMulti == fields = <<>> /\ current_field = 0

IdleBar ==
  /\ pb = [value |-> 0, maximum |-> 1, width |-> 0]
  /\ op = "init"
  /\ column = 0
  /\ buffer = <<>>
  /\ pb_style = <<>>
  /\ arg = ""
  /\ got = ReturnedNone

IdleBox ==
  /\ box = [width |-> 0, height |-> 0,
            title |-> [type |-> "str", text |-> <<>>], config |-> "cfg1"]
  /\ box_cache = <<>>
  /\ box_op = [name |-> "init", type |-> ""]
  /\ at = <<0, 0>>
  /\ grid = <<>>

IdleProgress ==
  /\ pd = <<>>
  /\ pd_cache = <<>>
  /\ pd_op = [name |-> "init", type |-> ""]
  /\ pd_at = <<0, 0>>
  /\ pd_grid = <<>>

IdleNew == made = [class |-> "none"] /\ new_op = [class |-> "", config |-> ""]

IdleConfig ==
  /\ configs = <<>>
  /\ instance = None
  /\ cfg_op = [name |-> "init"]
  /\ cfg_ret = None

IdlePair ==
  /\ lists = <<>>
  /\ dlgs = <<>>
  /\ showing = 0
  /\ pair_op = [dialog |-> 0, name |-> ""]

IdleLabel ==
  /\ lid = <<>>
  /\ lid_op = [name |-> "init"]
  /\ lid_at = <<0, 0>>
  /\ lid_grid = <<>>

\* LineInputDialog(label, default, filter, config)
LineInit ==
  /\ dialog = "line"
  /\ IdleShow
  /\ default \in LineDefaults
  /\ user_input = default
  /\ filter \in Filters
  /\ IdleMulti
  /\ IdleBar
  /\ IdleBox
  /\ IdleProgress
  /\ IdleNew
  /\ IdleLabel
  /\ IdlePair
  /\ IdleConfig

\* show() up to the loop: inkey = "", screen.update().
LineShow ==
  /\ dialog = "line"
  /\ pc = "idle"
  /\ pc' = "loop"
  /\ inkey' = NoKey
  /\ calls' = <<"update">>
  /\ UNCHANGED <<dialog, otherVars, keys, ret, raised, lineVars, multiVars, barVars, boxVars, progVars>>

\* A slip of LineBranch: the KEY_ESCAPE branch is missing.
LineBranchEscapeIgnored(k, flt) ==
  IF k = NoKey THEN "none"
  ELSE IF Name(k) = "KEY_ENTER" THEN "enter"
  ELSE IF IsEraseKey(k) THEN "erase"
  ELSE IF Accepts(flt, k) THEN "append"
  ELSE "ignore"

\* The if / elif chain of LineInputDialog.show(): the branch key k takes.
LineBranch(k, flt) ==
  IF k = NoKey THEN "none"
  ELSE IF Name(k) = "KEY_ENTER" THEN "enter"
  ELSE IF Name(k) = "KEY_ESCAPE" THEN "escape"
  ELSE IF IsEraseKey(k) THEN "erase"
  ELSE IF Accepts(flt, k) THEN "append"
  ELSE "ignore"

\* One pass over the body of the while loop, up to the poll.
LineHandle ==
  /\ dialog = "line"
  /\ pc = "loop"
  /\ LET b == LineBranch(inkey, filter) IN
       CASE b = "enter" ->
              /\ pc' = "done"
              /\ ret' = user_input
              /\ UNCHANGED <<user_input, calls>>
         [] b = "escape" ->
              /\ user_input' = Cleared(user_input)
              /\ pc' = "done"
              /\ ret' = user_input'
              /\ UNCHANGED calls
         [] b = "erase" ->
              /\ user_input' = DropLast(user_input)
              /\ calls' = calls \o Redraw
              /\ pc' = "poll"
              /\ UNCHANGED ret
         [] b = "append" ->
              /\ user_input' = Append(user_input, inkey)
              /\ calls' = calls \o Redraw
              /\ pc' = "poll"
              /\ UNCHANGED ret
         [] OTHER ->
              /\ pc' = "poll"
              /\ UNCHANGED <<user_input, ret, calls>>
  /\ UNCHANGED <<dialog, otherVars, inkey, keys, raised, default, filter, multiVars, barVars, boxVars, progVars>>

\* inkey = term.inkey(timeout=0.1): a key, or "" on a timeout.
LinePoll ==
  /\ dialog = "line"
  /\ pc = "poll"
  /\ \E k \in Keys \cup {NoKey} :
       /\ k # NoKey => Len(keys) < MaxKeys
       /\ inkey' = k
       /\ keys' = IF k = NoKey THEN keys ELSE Append(keys, k)
  /\ pc' = "loop"
  /\ calls' = <<>>
  /\ UNCHANGED <<dialog, otherVars, ret, raised, lineVars, multiVars, barVars, boxVars, progVars>>

\* ---------------------------------------------------- MultiLineInputDialog
\* The field dictionaries handed to the dialog: "default" and "filter".
FieldDicts ==
  { [default |-> <<>>, filter |-> PRINTABLE_FILTER],
    [default |-> <<"1">>, filter |-> INTEGER_FILTER] }

\* The lists handed to the constructor and to the fields setter.
FieldLists == UNION {[1..n -> FieldDicts] : n \in 0..MaxFields}

\* _build_cache(): field["user_input"] = field["default"] for every field.
BuildCache(fs) ==
  [i \in DOMAIN fs |->
     [default |-> fs[i].default, filter |-> fs[i].filter,
      user_input |-> fs[i].default]]

\* A slip of NextField: the index stops at the last field.
NextFieldNoWrap(cf, n) == IF cf + 1 < n THEN cf + 1 ELSE cf

\* __current_field += 1; __current_field %= len(__fields), for n > 0.
NextField(cf, n) == (cf + 1) % n

\* A slip of SetInput: the first field is written, whatever cf is.
SetInputOfFirst(fs, cf, text) == [fs EXCEPT ![1].user_input = text]

\* self.__fields[cf]["user_input"] = text (cf is 0-based).
SetInput(fs, cf, text) == [fs EXCEPT ![cf + 1].user_input = text]

\* A slip of ClearAll: only the first field is emptied.
ClearOnlyFirst(fs) ==
  [i \in DOMAIN fs |->
     IF i = 1 THEN [fs[i] EXCEPT !.user_input = Cleared(fs[i].user_input)]
     ELSE fs[i]]

\* for field in self.__fields: field["user_input"] = ""
ClearAll(fs) ==
  [i \in DOMAIN fs |-> [fs[i] EXCEPT !.user_input = Cleared(fs[i].user_input)]]

\* The if / elif chain of MultiLineInputDialog.show(): the branch key k
\* takes.  self.__fields[cf] raises IndexError when cf is no index.
MultiBranch(k, fs, cf) ==
  IF k = NoKey THEN "none"
  ELSE IF Name(k) = "KEY_ENTER" THEN "enter"
  ELSE IF Name(k) = "KEY_TAB" THEN "tab"
  ELSE IF Name(k) = "KEY_ESCAPE" THEN "escape"
  ELSE IF IsEraseKey(k)
    THEN (IF cf < Len(fs) THEN "erase" ELSE "IndexError")
  ELSE IF ~(cf < Len(fs)) THEN "IndexError"
  ELSE IF Accepts(fs[cf + 1].filter, k) THEN "append"
  ELSE "ignore"

\* MultiLineInputDialog(fields, config)
MultiInit ==
  /\ dialog = "multi"
  /\ IdleShow
  /\ IdleLine
  /\ \E fs \in FieldLists : fields = BuildCache(fs)
  /\ current_field = 0
  /\ IdleBar
  /\ IdleBox
  /\ IdleProgress
  /\ IdleNew
  /\ IdleLabel
  /\ IdlePair
  /\ IdleConfig

\* dialog.fields = value, value a list.
MultiSetFields ==
  /\ dialog = "multi"
  /\ pc \in {"idle", "done", "raised"}
  /\ \E value \in FieldLists : fields' = BuildCache(value)
  /\ calls' = <<"trigger_rendering">>
  /\ raised' = "none"
  /\ UNCHANGED <<dialog, otherVars, showVars, current_field, lineVars, barVars, boxVars, progVars>>

\* dialog.fields = value, value no list.
MultiSetFieldsBadType ==
  /\ dialog = "multi"
  /\ pc \in {"idle", "done", "raised"}
  /\ raised' = "PglInvalidTypeException"
  /\ calls' = <<>>
  /\ UNCHANGED <<dialog, otherVars, showVars, lineVars, multiVars, barVars, boxVars, progVars>>

\* show() up to the loop.
MultiShow ==
  /\ dialog = "multi"
  /\ pc \in {"idle", "done", "raised"}
  /\ pc' = "loop"
  /\ inkey' = NoKey
  /\ calls' = <<"trigger_rendering", "update">>
  /\ current_field' = 0
  /\ raised' = "none"
  /\ UNCHANGED <<dialog, otherVars, keys, ret, fields, lineVars, barVars, boxVars, progVars>>

\* One pass over the body of the while loop, up to the poll.
MultiHandle ==
  /\ dialog = "multi"
  /\ pc = "loop"
  /\ LET b == MultiBranch(inkey, fields, current_field)
         n == Len(fields)
     IN
       CASE b = "enter" ->
              /\ pc' = "done"
              /\ UNCHANGED <<fields, current_field, calls, raised>>
         [] b = "tab" /\ n = 0 ->
              /\ current_field' = current_field + 1
              /\ raised' = "ZeroDivisionError"
              /\ pc' = "raised"
              /\ UNCHANGED <<fields, calls>>
         [] b = "tab" /\ n > 0 ->
              /\ current_field' = NextField(current_field, n)
              /\ calls' = calls \o Redraw
              /\ pc' = "poll"
              /\ UNCHANGED <<fields, raised>>
         [] b = "escape" ->
              /\ fields' = ClearAll(fields)
              /\ pc' = "done"
              /\ UNCHANGED <<current_field, calls, raised>>
         [] b = "erase" ->
              /\ fields' = SetInput(fields, current_field,
                             DropLast(fields[current_field + 1].user_input))
              /\ calls' = calls \o Redraw
              /\ pc' = "poll"
              /\ UNCHANGED <<current_field, raised>>
         [] b = "append" ->
              /\ fields' = SetInput(fields, current_field,
                             Append(fields[current_field + 1].user_input, inkey))
              /\ calls' = calls \o Redraw
              /\ pc' = "poll"
              /\ UNCHANGED <<current_field, raised>>
         [] b = "IndexError" ->
              /\ raised' = "IndexError"
              /\ pc' = "raised"
              /\ UNCHANGED <<fields, current_field, calls>>
         [] OTHER ->
              /\ pc' = "poll"
              /\ UNCHANGED <<fields, current_field, calls, raised>>
  /\ UNCHANGED <<dialog, otherVars, inkey, keys, ret, lineVars, barVars, boxVars, progVars>>

\* inkey = term.inkey(timeout=0.1): a key, or "" on a timeout.  A character
\* is offered only while the current field's buffer has room for it.
MultiPoll ==
  /\ dialog = "multi"
  /\ pc = "poll"
  /\ \E k \in Keys \cup {NoKey} :
       /\ MultiBranch(k, fields, current_field) = "append"
            => Len(fields[current_field + 1].user_input) < MaxLen
       /\ inkey' = k
  /\ pc' = "loop"
  /\ calls' = <<>>
  /\ UNCHANGED <<dialog, otherVars, keys, ret, raised, lineVars, multiVars, barVars, boxVars, progVars>>

\* -------------------------------------------------------------- ProgressBar
Values == -MaxValue..MaxValue
Maxima == 0..MaxMaximum
Widths == 0..MaxWidth

\* The length of buffer[row]; the cells a bar is not drawn on are "".
BufWidth == MaxWidth + 2
Blank == [i \in 1..BufWidth |-> ""]

\* int(a / b): the quotient cut towards zero (b # 0; exact at these sizes).
TruncDiv(a, b) ==
  LET q == (IF a < 0 THEN -a ELSE a) \div (IF b < 0 THEN -b ELSE b)
  IN IF (a < 0) = (b < 0) THEN q ELSE -q

Min(a, b) == IF a < b THEN a ELSE b

\* prog = min(int((value * width) / maximum), width)
Prog(value, width, maximum) == Min(TruncDiv(value * width, maximum), width)

\* The place of index i in a Python sequence of length len, counted from 1:
\* a negative index counts from the end, 0 stands for IndexError.
PyIndex(i, len) ==
  IF 0 <= i /\ i < len THEN i + 1
  ELSE IF -len <= i /\ i < 0 THEN i + len + 1
  ELSE 0

\* for c in range(c, stop): buffer[row][col + c] = cell, on r = [buf, err];
\* an IndexError ends the rendering with the cells written so far.
RECURSIVE Fill(_, _, _, _, _)
Fill(r, c, stop, col, cell) ==
  IF r.err # "none" \/ c >= stop THEN r
  ELSE LET i == PyIndex(col + c, Len(r.buf)) IN
       IF i = 0 THEN [buf |-> r.buf, err |-> "IndexError"]
       ELSE Fill([buf |-> [r.buf EXCEPT ![i] = cell], err |-> "none"],
                 c + 1, stop, col, cell)

\* ProgressBar.render_to_buffer(buffer, row, col, ...) on the row buf.
RenderBar(bar, buf, col) ==
  IF bar.maximum = 0 THEN [buf |-> buf, err |-> "ZeroDivisionError"]
  ELSE LET prog == Prog(bar.value, bar.width, bar.maximum) IN
       Fill(Fill([buf |-> buf, err |-> "none"], 0, prog, col, "pb_progress"),
            prog, bar.width, col, "pb_empty")

\* The configurations a ProgressBar is left with by its constructor, which
\* stores what it is given: a UiConfig, or None.
BarConfigs == {"cfg1", "None"}

\* self.__config.<attribute> of a configuration that is None raises
\* AttributeError.
HasAttributes(config) == config \in UiConfigs

\* ProgressBar._build_cache() ends without exception: a marker that is no
\* Sprixel is given the colours of the configuration.
CanBuildCache(style) ==
  \/ HasAttributes(style.config)
  \/ /\ style.progress_marker.type = "Sprixel"
     /\ style.empty_marker.type = "Sprixel"

\* ProgressBar(value, maximum, width, progress_marker, empty_marker, config)
BarInit ==
  /\ dialog = "bar"
  /\ IdleShow
  /\ IdleLine
  /\ IdleMulti
  /\ IdleBox
  /\ IdleProgress
  /\ IdleNew
  /\ IdleLabel
  /\ IdlePair
  /\ IdleConfig
  /\ pb \in [value : Values, maximum : Maxima, width : Widths]
  /\ pb_style \in [progress_marker : {BLACK_RECTANGLE, SprixelMarker},
                   empty_marker : {SPACE, SprixelMarker},
                   config : BarConfigs]
  /\ CanBuildCache(pb_style)
  /\ arg = ""
  /\ got = ReturnedNone
  /\ op = "init"
  /\ column = 0
  /\ buffer = Blank

\* bar.render_to_buffer(buffer, row, col, ...) into a blank row, the caller
\* keeping col + width <= buffer_width.
BarRender ==
  /\ dialog = "bar"
  /\ \E col \in 0..(BufWidth - pb.width) :
       LET r == RenderBar(pb, Blank, col) IN
         /\ column' = col
         /\ buffer' = r.buf
         /\ raised' = r.err
  /\ op' = "render"
  /\ arg' = ""
  /\ got' = ReturnedNone
  /\ calls' = <<>>
  /\ UNCHANGED <<dialog, otherVars, showVars, lineVars, multiVars, boxVars, progVars, pb,
                 pb_style>>

\* A slip of TriggerRendering: no request is made.
TriggerRenderingForgotten(config) ==
  [calls |-> <<>>, raised |-> "none"]

\* self.__config.game.screen.trigger_rendering(), the last statement of the
\* four setters.
TriggerRendering(config) ==
  IF HasAttributes(config)
  THEN [calls |-> <<"trigger_rendering">>, raised |-> "none"]
  ELSE [calls |-> <<>>, raised |-> "AttributeError"]

\* bar.value = v, v an int. (The buffer of an earlier render is gone after
\* every setter.)
BarSetValue ==
  /\ dialog = "bar"
  /\ \E v \in Values : pb' = [pb EXCEPT !.value = v]
  /\ op' = "value"
  /\ arg' = "int"
  /\ got' = ReturnedNone
  /\ calls' = TriggerRendering(pb_style.config).calls
  /\ raised' = TriggerRendering(pb_style.config).raised
  /\ column' = 0
  /\ buffer' = Blank
  /\ UNCHANGED <<dialog, otherVars, showVars, lineVars, multiVars, boxVars, progVars,
                 pb_style>>

\* bar.maximum = m, m an int.
BarSetMaximum ==
  /\ dialog = "bar"
  /\ \E m \in Maxima : pb' = [pb EXCEPT !.maximum = m]
  /\ op' = "maximum"
  /\ arg' = "int"
  /\ got' = ReturnedNone
  /\ calls' = TriggerRendering(pb_style.config).calls
  /\ raised' = TriggerRendering(pb_style.config).raised
  /\ column' = 0
  /\ buffer' = Blank
  /\ UNCHANGED <<dialog, otherVars, showVars, lineVars, multiVars, boxVars, progVars,
                 pb_style>>

\* bar.progress_marker = value or bar.empty_marker = value, value a Text or
\* a str: the marker becomes the str, the cache is built again (which needs
\* the colours of the configuration), a rendering is asked for.
BarSetMarker(name, value) ==
  LET style == [pb_style EXCEPT ![name] = Str(value.text)]
  IN /\ pb_style' = style
     /\ op' = name
     /\ arg' = value.type
     /\ got' = ReturnedNone
     /\ IF CanBuildCache(style)
        THEN /\ calls' = TriggerRendering(style.config).calls
             /\ raised' = TriggerRendering(style.config).raised
        ELSE calls' = <<>> /\ raised' = "AttributeError"
     /\ column' = 0
     /\ buffer' = Blank
     /\ UNCHANGED <<dialog, otherVars, showVars, lineVars, multiVars, boxVars, progVars,
                    pb>>

BarSetProgressMarker ==
  /\ dialog = "bar"
  /\ \E value \in {BLACK_RECTANGLE,
                   Text(BLACK_RECTANGLE.text, "own.fg_color",
                        "own.bg_color")} :
       BarSetMarker("progress_marker", value)

BarSetEmptyMarker ==
  /\ dialog = "bar"
  /\ \E value \in {SPACE, Text(SPACE.text, "own.fg_color", "own.bg_color")} :
       BarSetMarker("empty_marker", value)

\* The getter of progress_marker.
GetProgressMarker(style) == style.progress_marker

\* The getter of empty_marker: it returns self.__progress_marker.
GetEmptyMarker(style) == style.progress_marker

\* What a getter leaves behind: the value, and an unchanged bar.
BarGet(name, value) ==
  /\ op' = name
  /\ arg' = ""
  /\ got' = value
  /\ calls' = <<>>
  /\ raised' = "none"
  /\ UNCHANGED <<dialog, otherVars, showVars, lineVars, multiVars, boxVars,
                 progVars, pb, pb_style, column, buffer>>

\* bar.progress_marker
BarGetProgressMarker ==
  /\ dialog = "bar"
  /\ BarGet("get_progress_marker", GetProgressMarker(pb_style))

\* bar.empty_marker
BarGetEmptyMarker ==
  /\ dialog = "bar"
  /\ BarGet("get_empty_marker", GetEmptyMarker(pb_style))

\* A setter of the bar given a value of a type it does not take: no int for
\* value and maximum, no Text and no str for the markers.
BarSetBadType ==
  /\ dialog = "bar"
  /\ \/ op' \in {"value", "maximum"} /\ arg' = "str"
     \/ op' \in {"progress_marker", "empty_marker"} /\ arg' = "Sprixel"
  /\ got' = ReturnedNone
  /\ calls' = <<>>
  /\ raised' = "PglInvalidTypeException"
  /\ column' = 0
  /\ buffer' = Blank
  /\ UNCHANGED <<dialog, otherVars, showVars, lineVars, multiVars, boxVars, progVars, pb,
                 pb_style>>

\* --------------------------------------------------------------------- Box
\* The i-th character of the title texts: "", "H", "Hi", "Hi!", ...
TitleChar(i) == IF i = 1 THEN "H" ELSE IF i = 2 THEN "i" ELSE "!"

TitleTexts == {[i \in 1..n |-> TitleChar(i)] : n \in 0..MaxTitle}

\* The titles a Box is given: str objects and a Text with colours of its own.
Titles ==
  {Str(s) : s \in TitleTexts}
    \cup {Text([i \in 1..MaxTitle |-> TitleChar(i)], "own.fg_color",
                "own.bg_color")}

BoxWidths == 0..MaxBoxWidth
BoxHeights == 0..MaxBoxHeight

\* The buffer a Box is rendered to: rows 0 .. BoxBufHeight - 1, columns
\* 0 .. BoxBufWidth - 1, every Box of the model fits at every offset.
BoxBufWidth == MaxBoxWidth + MaxAt
BoxBufHeight == MaxBoxHeight + MaxAt

\* A cell nothing was written to.
NoCell == Sprixel("", "", "")

BlankGrid == [r \in 1..BoxBufHeight |-> [c \in 1..BoxBufWidth |-> NoCell]]

\* Sprite.from_text(text): one cell per character, in the colours of the text.
FromText(text) ==
  [i \in 1..Len(text.text) |->
     Sprixel(text.text[i], text.bg_color, text.fg_color)]

\* Text == str, as render_to_buffer() uses it to tell a Box without title.
TextEqualsStr(text, s) == text.text = s

\* Sprite.render_to_buffer(buffer, row, column, buffer_height, buffer_width):
\* the cells of the run, from (row, column) on, as far as they lie in the
\* buffer.
SpriteWrites(sprite, r, c, buffer_height, buffer_width) ==
  SelectSeq([i \in 1..Len(sprite) |-> <<r, c + i - 1, sprite[i]>>],
            LAMBDA w : /\ 0 <= w[1] /\ w[1] < buffer_height
                       /\ 0 <= w[2] /\ w[2] < buffer_width)

\* A slip of BoxBuildCache: the title run is left out of the rebuild.
BoxBuildCacheNoTitle(b) ==
  LET bg == Attr(b.config, "border_bg_color")
      fg == Attr(b.config, "border_fg_color")
      Cell(name) == Sprixel(Attr(b.config, name), bg, fg)
  IN [dialog_vertical_border |-> Cell("box_vertical_border"),
      dialog_horizontal_border |-> Cell("box_horizontal_border"),
      top_right_corner |-> Cell("box_top_left_corner"),
      top_left_corner |-> Cell("box_top_right_corner"),
      bottom_right_corner |-> Cell("box_bottom_left_corner"),
      bottom_left_corner |-> Cell("box_bottom_right_corner"),
      title |-> Text(<<>>, fg, bg),
      title_sprite |-> <<>>]

\* Box._build_cache()
BoxBuildCache(b) ==
  LET bg == Attr(b.config, "border_bg_color")
      fg == Attr(b.config, "border_fg_color")
      Cell(name) == Sprixel(Attr(b.config, name), bg, fg)
      title == IF b.title.type = "Text" THEN b.title
               ELSE Text(b.title.text, fg, bg)
  IN [dialog_vertical_border |-> Cell("box_vertical_border"),
      dialog_horizontal_border |-> Cell("box_horizontal_border"),
      top_right_corner |-> Cell("box_top_left_corner"),
      top_left_corner |-> Cell("box_top_right_corner"),
      bottom_right_corner |-> Cell("box_bottom_left_corner"),
      bottom_left_corner |-> Cell("box_bottom_right_corner"),
      title |-> title,
      title_sprite |-> FromText(title)]

\* round(n / 2) of Python: a half goes to the even neighbour.
RoundHalf(n) ==
  LET a == IF n < 0 THEN -n ELSE n
      k == a \div 2
      r == IF a % 2 = 0 \/ k % 2 = 0 THEN k ELSE k + 1
  IN IF n < 0 THEN -r ELSE r

\* round(width / 2 - len(title) / 2): the cells of the first fill.
LeftFill(width, t) == RoundHalf(width - t)

\* A slip of TitleOffset: the title starts where the first fill stops.
TitleOffsetAfterFill(width, t) == RoundHalf(width - t)

\* int(width / 2 - 1 - len(title) / 2): where the title starts, counted
\* from the cell after the first corner.
TitleOffset(width, t) == TruncDiv(width - t - 2, 2)

\* int(width / 2 - len(title) / 2): the cells of the second fill.
RightFill(width, t) == TruncDiv(width - t, 2)

\* for c in range(from, stop): buffer[r][c] = cell
Run(r, from, stop, cell) ==
  [i \in 1..(IF stop > from THEN stop - from ELSE 0) |->
     <<r, from + i - 1, cell>>]

\* A slip of SideRows: the first side row is the top row.
SideRowsFromTop(row, col, width, height, cell) ==
  [i \in 1..(IF height > 1 THEN 2 * (height - 1) ELSE 0) |->
     <<row + ((i - 1) \div 2),
       IF i % 2 = 1 THEN col ELSE col + width - 1, cell>>]

\* for r in range(1, height - 1): the two cells of every side row.
SideRows(row, col, width, height, cell) ==
  [i \in 1..(IF height > 2 THEN 2 * (height - 2) ELSE 0) |->
     <<row + 1 + ((i - 1) \div 2),
       IF i % 2 = 1 THEN col ELSE col + width - 1, cell>>]

\* The assignments of Box.render_to_buffer(), in the order it makes them.
BoxWrites(b, cache, row, col, buffer_height, buffer_width) ==
  LET w == b.width
      h == b.height
      t == Len(cache.title.text)
      horiz == cache.dialog_horizontal_border
      cs == col + 1 + TitleOffset(w, t) + t
      top == IF TextEqualsStr(cache.title, <<>>)
             THEN Run(row, col + 1, col + w - 1, horiz)
             ELSE Run(row, col + 1, col + 1 + LeftFill(w, t), horiz)
                    \o SpriteWrites(cache.title_sprite, row,
                                    col + 1 + TitleOffset(w, t),
                                    buffer_height, buffer_width)
                    \o Run(row, cs, cs + RightFill(w, t), horiz)
  IN <<<<row, col, cache.top_right_corner>>>>
       \o top
       \o <<<<row, col + w - 1, cache.top_left_corner>>>>
       \o SideRows(row, col, w, h, cache.dialog_vertical_border)
       \o <<<<row + h - 1, col, cache.bottom_right_corner>>>>
       \o Run(row + h - 1, col + 1, col + w - 1, horiz)
       \o <<<<row + h - 1, col + w - 1, cache.bottom_left_corner>>>>

\* buffer[r][c] = cell for the assignments from the i-th on; the first index
\* out of range ends them with IndexError.
RECURSIVE Assign(_, _, _)
Assign(g, ws, i) ==
  IF i > Len(ws) THEN [buf |-> g, err |-> "none"]
  ELSE LET r == PyIndex(ws[i][1], Len(g))
           c == PyIndex(ws[i][2], Len(g[1]))
       IN IF r = 0 \/ c = 0 THEN [buf |-> g, err |-> "IndexError"]
          ELSE Assign([g EXCEPT ![r][c] = ws[i][3]], ws, i + 1)

\* Box.render_to_buffer(buffer, row, column, buffer_height, buffer_width)
BoxRenderToBuffer(b, cache, g, row, col) ==
  Assign(g, BoxWrites(b, cache, row, col, Len(g), Len(g[1])), 1)

NoOp == [name |-> "init", type |-> ""]

\* Box(width, height, title, config)
BoxInit ==
  /\ dialog = "box"
  /\ IdleShow
  /\ IdleLine
  /\ IdleMulti
  /\ IdleBar
  /\ IdleProgress
  /\ IdleNew
  /\ IdleLabel
  /\ IdlePair
  /\ IdleConfig
  /\ box \in [width : BoxWidths, height : BoxHeights, title : Titles,
              config : UiConfigs]
  /\ box_cache = BoxBuildCache(box)
  /\ box_op = NoOp
  /\ at = <<0, 0>>
  /\ grid = BlankGrid

\* box.render_to_buffer(buffer, row, column, ...) with a blank buffer the
\* Box fits in at (row, column).
BoxRender ==
  /\ dialog = "box"
  /\ \E row \in 0..MaxAt, col \in 0..MaxAt :
       LET r == BoxRenderToBuffer(box, box_cache, BlankGrid, row, col)
       IN /\ row + box.height <= BoxBufHeight
          /\ col + box.width <= BoxBufWidth
          /\ at' = <<row, col>>
          /\ grid' = r.buf
          /\ raised' = r.err
  /\ box_op' = [name |-> "render", type |-> ""]
  /\ UNCHANGED <<dialog, otherVars, showVars, calls, lineVars, multiVars, barVars,
                 progVars, box, box_cache>>

\* What a setter leaves behind: `name` was set to `value`, accepted or not;
\* the buffer of an earlier render is gone.
BoxSet(name, value, accepted) ==
  /\ box_op' = [name |-> name, type |-> value.type]
  /\ IF accepted
     THEN /\ box' = [box EXCEPT ![name] =
                       IF value.type = "int" THEN value.v
                       ELSE IF value.type = "UiConfig" THEN value.id
                       ELSE value]
          /\ box_cache' = BoxBuildCache(box')
          /\ raised' = "none"
     ELSE /\ raised' = "PglInvalidTypeException"
          /\ UNCHANGED <<box, box_cache>>
  /\ at' = <<0, 0>>
  /\ grid' = BlankGrid
  /\ UNCHANGED <<dialog, otherVars, showVars, calls, lineVars, multiVars, barVars,
                 progVars>>

\* box.config = value
BoxSetConfig ==
  /\ dialog = "box"
  /\ \E value \in {[type |-> "UiConfig", id |-> c] : c \in UiConfigs}
                    \cup {Other("NoneType"), Str(<<>>)} :
       BoxSet("config", value, value.type = "UiConfig")

\* box.title = value
BoxSetTitle ==
  /\ dialog = "box"
  /\ \E value \in Titles \cup {Other("NoneType"), PyInt(0)} :
       BoxSet("title", value, value.type = "Text" \/ value.type = "str")

\* box.width = value
BoxSetWidth ==
  /\ dialog = "box"
  /\ \E value \in {PyInt(n) : n \in BoxWidths}
                    \cup {Other("NoneType"), Str(<<"H">>)} :
       BoxSet("width", value, value.type = "int")

\* box.height = value
BoxSetHeight ==
  /\ dialog = "box"
  /\ \E value \in {PyInt(n) : n \in BoxHeights}
                    \cup {Other("NoneType"), Str(<<"H">>)} :
       BoxSet("height", value, value.type = "int")

\* ---------------------------------------------------------- ProgressDialog
\* UiConfig.borderless_dialog: the default (True) in cfg1, False in cfg2.
Borderless(config) == config = "cfg1"

\* The str of a sequence of characters.
RECURSIVE Join(_)
Join(text) == IF text = <<>> THEN "" ELSE text[1] \o Join(Tail(text))

\* ProgressBar(value, maximum, width, progress_marker, empty_marker, config)
ProgressBar(value, maximum, width, progress_marker, empty_marker, config) ==
  [value |-> value, maximum |-> maximum, width |-> width,
   progress_marker |-> progress_marker, empty_marker |-> empty_marker,
   config |-> config]

\* ProgressBar._build_cache(): a marker that is a Sprixel is the cell, a
\* str becomes one in the colours of the configuration.
BarBuildCache(bar) ==
  LET Cell(marker) ==
        IF marker.type = "Sprixel" THEN marker.cell
        ELSE Sprixel(Join(marker.text), Attr(bar.config, "bg_color"),
                     Attr(bar.config, "fg_color"))
  IN [pb_empty |-> Cell(bar.empty_marker),
      pb_progress |-> Cell(bar.progress_marker)]

\* The assignments of ProgressBar.render_to_buffer(), maximum not 0.
BarWrites(bar, row, col) ==
  LET prog == Prog(bar.value, bar.width, bar.maximum)
  IN Run(row, col, col + prog, BarBuildCache(bar).pb_progress)
       \o Run(row, col + prog, col + bar.width, BarBuildCache(bar).pb_empty)

\* Text.length
TextLength(text) == Len(text.text)

\* A slip of AdaptWidth: the width is never adapted.
AdaptWidthNever(adaptive_width, width, label) == width

\* The width after the adaptation of ProgressDialog._build_cache().
AdaptWidth(adaptive_width, width, label) ==
  IF adaptive_width /\ width # TextLength(label) THEN Len(label.text)
  ELSE width

\* The labels a ProgressDialog is given.
Labels == Titles

PdValues == 0..MaxPdValue
PdWidths == 0..MaxPdWidth

\* The buffer a ProgressDialog is rendered to.
PdBufHeight == 4 + MaxAt
PdBufWidth == MaxPdWidth + MaxTitle + 2 + MaxAt

PdBlank == [r \in 1..PdBufHeight |-> [c \in 1..PdBufWidth |-> NoCell]]

\* The cache before the first _build_cache(): no "borders" entry yet.
NoBorders == [width |-> 0, height |-> 0, title |-> Str(<<>>), config |-> ""]

\* ProgressDialog._build_cache(): the dialog with its adapted width and the
\* cache; the "borders" entry is only written when the dialog has borders.
PdBuildCache(d, borders) ==
  LET label == IF d.label.type = "Text" THEN d.label
               ELSE Text(d.label.text, Attr(d.config, "fg_color"),
                         Attr(d.config, "bg_color"))
      width == AdaptWidth(d.adaptive_width, d.width, label)
  IN [d |-> [d EXCEPT !.width = width],
      cache |->
        [label |-> label,
         pb |-> ProgressBar(d.value, d.maximum, width, BLACK_RECTANGLE,
                            SPACE, d.config),
         borders |-> IF Borderless(d.config) THEN borders
                     ELSE [width |-> width, height |-> 2, title |-> label,
                           config |-> d.config]]]

\* ProgressDialog.render_to_buffer(): the buffer after it and the exception
\* it ended with.
PdRenderToBuffer(d, cache, g, row, col) ==
  LET offset == IF Borderless(d.config) THEN 0 ELSE 1
      b == [width |-> d.width + 2, height |-> 4, title |-> Str(<<>>),
            config |-> d.config]
      frame == IF Borderless(d.config) THEN <<>>
               ELSE BoxWrites(b, BoxBuildCache(b), row, col, Len(g),
                              Len(g[1]))
      lbl == SpriteWrites(FromText(cache.label), row + offset, col + offset,
                          Len(g), Len(g[1]))
      r == Assign(g, frame \o lbl, 1)
  IN IF r.err # "none" THEN r
     ELSE IF cache.pb.maximum = 0
       THEN [buf |-> r.buf, err |-> "ZeroDivisionError"]
     ELSE Assign(r.buf, BarWrites(cache.pb, row + 1 + offset, col + offset), 1)

\* ProgressDialog(label, value, maximum, width, adaptive_width,
\* destroy_on_complete, config) with the default markers.
PdInit ==
  /\ dialog = "progress"
  /\ IdleShow
  /\ IdleLine
  /\ IdleMulti
  /\ IdleBar
  /\ IdleBox
  /\ IdleNew
  /\ IdleLabel
  /\ IdlePair
  /\ IdleConfig
  /\ \E d \in [label : Labels, value : PdValues, maximum : PdValues,
               width : PdWidths, adaptive_width : BOOLEAN,
               destroy_on_complete : BOOLEAN, destroy : {FALSE},
               config : UiConfigs] :
       /\ pd = PdBuildCache(d, NoBorders).d
       /\ pd_cache = PdBuildCache(d, NoBorders).cache
  /\ pd_op = NoOp
  /\ pd_at = <<0, 0>>
  /\ pd_grid = PdBlank

\* dialog.render_to_buffer(buffer, row, column, ...) with a blank buffer.
PdRender ==
  /\ dialog = "progress"
  /\ \E col \in 0..MaxAt :
       LET r == PdRenderToBuffer(pd, pd_cache, PdBlank, 0, col)
       IN /\ pd_at' = <<0, col>>
          /\ pd_grid' = r.buf
          /\ raised' = r.err
          /\ pd' = [pd EXCEPT !.destroy =
                      IF r.err = "none" /\ pd.destroy_on_complete
                           /\ pd.value = pd.maximum
                      THEN TRUE ELSE @]
  /\ calls' = IF pd.destroy THEN <<"delete">> ELSE <<>>
  /\ pd_op' = [name |-> "render", type |-> ""]
  /\ UNCHANGED <<dialog, otherVars, showVars, lineVars, multiVars, barVars, boxVars,
                 pd_cache>>

\* What a ProgressDialog setter leaves behind besides the dialog and its
\* cache; the buffer of an earlier render is gone.
PdSet(name, value, accepted, requests) ==
  /\ pd_op' = [name |-> name, type |-> value.type]
  /\ IF accepted
     THEN raised' = "none" /\ calls' = requests
     ELSE /\ raised' = "PglInvalidTypeException"
          /\ calls' = <<>>
          /\ UNCHANGED <<pd, pd_cache>>
  /\ pd_at' = <<0, 0>>
  /\ pd_grid' = PdBlank
  /\ UNCHANGED <<dialog, otherVars, showVars, lineVars, multiVars, barVars, boxVars>>

\* dialog.label = value
PdSetLabel ==
  /\ dialog = "progress"
  /\ \E value \in Labels \cup {Other("NoneType"), PyInt(0)} :
       LET ok == value.type = "Text" \/ value.type = "str"
           b == PdBuildCache([pd EXCEPT !.label = Str(value.text)],
                             pd_cache.borders)
       IN /\ ok => pd' = b.d /\ pd_cache' = b.cache
          /\ PdSet("label", value, ok, <<"trigger_rendering">>)

\* dialog.value = val: the inner bar is given the value and asks for a
\* rendering of its own.
PdSetValue ==
  /\ dialog = "progress"
  /\ \E val \in {PyInt(n) : n \in PdValues} \cup {Other("NoneType")} :
       LET ok == val.type = "int"
       IN /\ ok => /\ pd' = [pd EXCEPT !.value = val.v]
                   /\ pd_cache' = [pd_cache EXCEPT !.pb.value = val.v]
          /\ PdSet("value", val, ok,
                   <<"trigger_rendering", "trigger_rendering">>)

\* dialog.maximum = value
PdSetMaximum ==
  /\ dialog = "progress"
  /\ \E value \in {PyInt(n) : n \in PdValues} \cup {Other("NoneType")} :
       LET ok == value.type = "int"
           b == PdBuildCache([pd EXCEPT !.maximum = value.v],
                             pd_cache.borders)
       IN /\ ok => pd' = b.d /\ pd_cache' = b.cache
          /\ PdSet("maximum", value, ok, <<"trigger_rendering">>)

\* dialog.config = value (Dialog.config): the cache is left as it is.
PdSetConfig ==
  /\ dialog = "progress"
  /\ \E value \in {[type |-> "UiConfig", id |-> c] : c \in UiConfigs}
                    \cup {Other("NoneType")} :
       LET ok == value.type = "UiConfig"
       IN /\ ok => /\ pd' = [pd EXCEPT !.config = value.id]
                   /\ UNCHANGED pd_cache
          /\ PdSet("config", value, ok, <<>>)

\* ------------------------------------------------------------ constructors
\* What a constructor is given as config: a UiConfig, None, or an object of
\* another class (a str).
ConfigArgs ==
  {[type |-> "UiConfig", id |-> c] : c \in UiConfigs}
    \cup {[type |-> "NoneType", id |-> "None"], [type |-> "str", id |-> "str"]}

\* isinstance(config, UiConfig)
IsUiConfig(config) == config.type = "UiConfig"

NoObject == [class |-> "none"]

\* The outcome of a constructor call: the object, or the exception.
Made(class, config, object) ==
  /\ new_op' = [class |-> class, config |-> config.type]
  /\ made' = [class |-> class, config |-> config.id, object |-> object]
  /\ raised' = "none"

Failed(class, config, exception) ==
  /\ new_op' = [class |-> class, config |-> config.type]
  /\ made' = NoObject
  /\ raised' = exception

\* Nothing is constructed yet.
NewInit ==
  /\ dialog = "none"
  /\ IdleShow
  /\ IdleLine
  /\ IdleMulti
  /\ IdleBar
  /\ IdleBox
  /\ IdleProgress
  /\ IdleNew
  /\ IdleLabel
  /\ IdlePair
  /\ IdleConfig

Fresh == dialog = "none" /\ made = NoObject /\ raised = "none"

Rest ==
  UNCHANGED <<dialog, showVars, calls, lineVars, multiVars, barVars, boxVars,
              progVars, cfgVars, pairVars, labelVars>>

\* UiConfig(game)
NewUiConfig ==
  /\ Fresh
  /\ \E game \in {[type |-> "Game", id |-> "game"],
                  [type |-> "NoneType", id |-> "None"]} :
       IF game.id = "None"
       THEN Failed("UiConfig", game, "PglInvalidTypeException")
       ELSE Made("UiConfig", game, <<>>)
  /\ Rest

\* Dialog.__init__(config)
DialogInitRaises(config) == config.id = "None" \/ ~IsUiConfig(config)

\* Box(width, height, title, config): the configuration is first used by
\* _build_cache(), which reads its attributes.
NewBox ==
  /\ Fresh
  /\ \E width \in BoxWidths, height \in BoxHeights, title \in Titles,
        config \in ConfigArgs :
       LET b == [width |-> width, height |-> height, title |-> title,
                 config |-> config.id]
       IN IF HasAttributes(config.id)
          THEN Made("Box", config, [box |-> b, cache |-> BoxBuildCache(b)])
          ELSE Failed("Box", config, "AttributeError")
  /\ Rest

\* ProgressBar(value, maximum, width, progress_marker, empty_marker, config)
NewProgressBar ==
  /\ Fresh
  /\ \E value \in Values, maximum \in Maxima, width \in Widths,
        progress_marker \in {BLACK_RECTANGLE, SprixelMarker},
        empty_marker \in {SPACE, SprixelMarker}, config \in ConfigArgs :
       LET bar == ProgressBar(value, maximum, width, progress_marker,
                              empty_marker, config.id)
       IN IF CanBuildCache(bar)
          THEN Made("ProgressBar", config, bar)
          ELSE Failed("ProgressBar", config, "AttributeError")
  /\ Rest

\* ProgressDialog(label, value, maximum, width, ..., config)
NewProgressDialog ==
  /\ Fresh
  /\ \E d \in [label : Labels, value : PdValues, maximum : PdValues,
               width : PdWidths, adaptive_width : BOOLEAN,
               destroy_on_complete : BOOLEAN, destroy : {FALSE}],
        config \in ConfigArgs :
       IF DialogInitRaises(config)
       THEN Failed("ProgressDialog", config, "PglInvalidTypeException")
       ELSE Made("ProgressDialog", config,
                 PdBuildCache([label |-> d.label, value |-> d.value,
                               maximum |-> d.maximum, width |-> d.width,
                               adaptive_width |-> d.adaptive_width,
                               destroy_on_complete |-> d.destroy_on_complete,
                               destroy |-> FALSE, config |-> config.id],
                              NoBorders))
  /\ Rest

\* LineInputDialog(label, default, filter, config), label a str.
NewLineInputDialog ==
  /\ Fresh
  /\ \E d \in LineDefaults, flt \in Filters, config \in ConfigArgs :
       IF DialogInitRaises(config)
       THEN Failed("LineInputDialog", config, "PglInvalidTypeException")
       ELSE Made("LineInputDialog", config,
                 [default |-> d, filter |-> flt, user_input |-> d])
  /\ Rest

\* MultiLineInputDialog(fields, config), fields a list.
NewMultiLineInputDialog ==
  /\ Fresh
  /\ \E fs \in FieldLists, config \in ConfigArgs :
       IF DialogInitRaises(config)
       THEN Failed("MultiLineInputDialog", config, "PglInvalidTypeException")
       ELSE Made("MultiLineInputDialog", config,
                 [fields |-> BuildCache(fs), current_field |-> 0])
  /\ Rest

\* ---------------------------------------------------------------- UiConfig
\* The game argument of UiConfig(game, ..., borderless_dialog): a Game, or
\* None (the default).
GameArgs == {"game1", "game2", "None"}

\* The arguments of one call.
UiConfigArgs == [game : GameArgs, borderless_dialog : BOOLEAN]

\* UiConfig.__init__(): without a game it raises, else the object keeps its
\* arguments.
UiConfigInit(args) ==
  IF args.game = "None"
  THEN [raised |-> "PglInvalidTypeException"]
  ELSE [raised |-> "none",
        object |-> [game |-> args.game,
                    borderless_dialog |-> args.borderless_dialog]]

\* cls(*args, **kwargs): the heap after the call, the new object (its index
\* in the heap) and the exception.
Construct(heap, args) ==
  LET made_ == UiConfigInit(args)
  IN IF made_.raised = "none"
     THEN [configs |-> Append(heap, made_.object), ret |-> Len(heap) + 1,
           raised |-> "none"]
     ELSE [configs |-> heap, ret |-> None, raised |-> made_.raised]

\* A slip of Instance: every call constructs.
InstanceAlwaysNew(inst, heap, args) ==
  LET c == Construct(heap, args)
  IN [configs |-> c.configs, raised |-> c.raised, ret |-> c.ret,
      instance |-> IF c.raised = "none" THEN c.ret ELSE inst]

\* UiConfig.instance(*args, **kwargs)
Instance(inst, heap, args) ==
  IF inst = None
  THEN LET c == Construct(heap, args)
       IN [configs |-> c.configs, raised |-> c.raised, ret |-> c.ret,
           instance |-> c.ret]
  ELSE [configs |-> heap, raised |-> "none", ret |-> inst, instance |-> inst]

\* The module is imported: no UiConfig exists, UiConfig.__instance is None.
ConfigInit ==
  /\ dialog = "config"
  /\ IdleShow
  /\ IdleLine
  /\ IdleMulti
  /\ IdleBar
  /\ IdleBox
  /\ IdleProgress
  /\ IdleNew
  /\ IdleLabel
  /\ IdlePair
  /\ IdleConfig

ConfigRest ==
  UNCHANGED <<dialog, showVars, calls, lineVars, multiVars, barVars, boxVars,
              progVars, newVars, pairVars, labelVars>>

\* UiConfig(game, ..., borderless_dialog) at a call site.
ConfigNew ==
  /\ dialog = "config"
  /\ Len(configs) < MaxConfigs
  /\ \E args \in UiConfigArgs :
       LET c == Construct(configs, args) IN
         /\ cfg_op' = [name |-> "UiConfig", args |-> args]
         /\ configs' = c.configs
         /\ cfg_ret' = c.ret
         /\ raised' = c.raised
  /\ UNCHANGED instance
  /\ ConfigRest

\* UiConfig.instance(game, ..., borderless_dialog)
ConfigInstance ==
  /\ dialog = "config"
  /\ instance = None => Len(configs) < MaxConfigs
  /\ \E args \in UiConfigArgs :
       LET i == Instance(instance, configs, args) IN
         /\ cfg_op' = [name |-> "instance", args |-> args]
         /\ configs' = i.configs
         /\ instance' = i.instance
         /\ cfg_ret' = i.ret
         /\ raised' = i.raised
  /\ ConfigRest

\* ------------------------------------------- two MultiLineInputDialogs
\* The list object the def statement of __init__ creates once, as the default
\* of its parameter fields (the label is left out as in FieldDicts).
DefaultFields == <<[default |-> <<>>, filter |-> PRINTABLE_FILTER]>>

\* The lists a caller writes in the call, fields=[{...}].
OwnFields == {<<d>> : d \in FieldDicts}

\* The fields argument of a constructor call: none, or a list.
NoArgument == [given |-> FALSE]
Given(list) == [given |-> TRUE, list |-> list]

\* The list objects are the indices of the heap `lists`: the default list is
\* the first one.
DefaultList == 1

NotMade == [made |-> FALSE, fields |-> 0, current_field |-> 0]

Dialogs == {1, 2}

\* One pass over the loop of show() with the key k: the list after it, the
\* current field, the exception, and whether show() is over.
KeyStep(k, fs, cf) ==
  LET b == MultiBranch(k, fs, cf)
      same == [fields |-> fs, current_field |-> cf, raised |-> "none",
               over |-> FALSE]
  IN CASE b = "enter" -> [same EXCEPT !.over = TRUE]
       [] b = "tab" /\ Len(fs) = 0 ->
            [same EXCEPT !.current_field = cf + 1,
                         !.raised = "ZeroDivisionError", !.over = TRUE]
       [] b = "tab" /\ Len(fs) > 0 ->
            [same EXCEPT !.current_field = NextField(cf, Len(fs))]
       [] b = "escape" -> [same EXCEPT !.fields = ClearAll(fs), !.over = TRUE]
       [] b = "erase" ->
            [same EXCEPT
               !.fields = SetInput(fs, cf, DropLast(fs[cf + 1].user_input))]
       [] b = "append" ->
            [same EXCEPT
               !.fields = SetInput(fs, cf, Append(fs[cf + 1].user_input, k))]
       [] b = "IndexError" ->
            [same EXCEPT !.raised = "IndexError", !.over = TRUE]
       [] OTHER -> same

\* The module is imported: the default list exists, no dialog does.
PairInit ==
  /\ dialog = "pair"
  /\ IdleShow
  /\ IdleLine
  /\ IdleMulti
  /\ IdleBar
  /\ IdleBox
  /\ IdleProgress
  /\ IdleNew
  /\ IdleLabel
  /\ IdleConfig
  /\ lists = <<DefaultFields>>
  /\ dlgs = [i \in Dialogs |-> NotMade]
  /\ showing = 0
  /\ pair_op = [dialog |-> 0, name |-> "import"]

PairRest ==
  UNCHANGED <<dialog, showVars, calls, lineVars, multiVars, barVars, boxVars,
              progVars, newVars, cfgVars, labelVars>>

\* The object the parameter fields is bound to: the default list itself, or
\* the list of the call, a new object.
FieldsArgument(heap, argument) ==
  IF argument = NoArgument
  THEN [lists |-> heap, fields |-> DefaultList]
  ELSE [lists |-> Append(heap, argument.list), fields |-> Len(heap) + 1]

\* d = MultiLineInputDialog(config=config) or
\* d = MultiLineInputDialog(fields=[{...}], config=config), config a UiConfig:
\* self.__fields = fields, then _build_cache() writes "user_input" into the
\* dictionaries of that list.
PairNew(i) ==
  /\ dialog = "pair"
  /\ showing = 0
  /\ ~dlgs[i].made
  /\ \E argument \in {NoArgument} \cup {Given(l) : l \in OwnFields} :
       LET a == FieldsArgument(lists, argument) IN
         /\ lists' = [a.lists EXCEPT ![a.fields] = BuildCache(@)]
         /\ dlgs' = [dlgs EXCEPT ![i] = [made |-> TRUE, fields |-> a.fields,
                                         current_field |-> 0]]
  /\ pair_op' = [dialog |-> i, name |-> "init"]
  /\ raised' = "none"
  /\ UNCHANGED showing
  /\ PairRest

\* d.show() up to the loop.
PairShow(i) ==
  /\ dialog = "pair"
  /\ showing = 0
  /\ dlgs[i].made
  /\ showing' = i
  /\ dlgs' = [dlgs EXCEPT ![i].current_field = 0]
  /\ pair_op' = [dialog |-> i, name |-> "show"]
  /\ raised' = "none"
  /\ UNCHANGED lists
  /\ PairRest

\* A key arrives in the running show() of d and is handled.  A character is
\* offered only while the current field's buffer has room for it.
PairKey(i) ==
  /\ dialog = "pair"
  /\ showing = i
  /\ \E k \in Keys :
       LET fs == lists[dlgs[i].fields]
           cf == dlgs[i].current_field
           s == KeyStep(k, fs, cf)
       IN /\ MultiBranch(k, fs, cf) = "append"
               => Len(fs[cf + 1].user_input) < MaxLen
          /\ lists' = [lists EXCEPT ![dlgs[i].fields] = s.fields]
          /\ dlgs' = [dlgs EXCEPT ![i].current_field = s.current_field]
          /\ showing' = IF s.over THEN 0 ELSE i
          /\ raised' = s.raised
          /\ pair_op' = [dialog |-> i, name |-> "key"]
  /\ PairRest

\* ------------------------------------------- LineInputDialog: the label
\* base.Text(label) of the constructor: a Text without colours of its own.
PlainText(text) == Text(text, "None", "None")

\* What the label setter is given: a str or a Text, or an int.
LabelValues == Labels \cup {PyInt(0)}

\* The buffer a LineInputDialog is rendered to.
LidBufHeight == 4
LidBufWidth == MaxTitle + 2 + MaxAt

LidBlank == [r \in 1..LidBufHeight |-> [c \in 1..LidBufWidth |-> NoCell]]

\* The attributes Dialog.__init__ and LineInputDialog.__init__ give the
\* object; nothing in the two classes assigns another one.
LineAttributes ==
  {"_config", "_user_input", "__label", "__default", "__filter",
   "user_input"}

\* dialog.label = value: the dialog after it, the exception and the screen
\* calls.  __label is assigned a str in both branches before self._cache is
\* read.
LabelSet(d, value) ==
  IF value.type \in {"Text", "str"}
  THEN IF "_cache" \in LineAttributes
       THEN [d |-> [d EXCEPT !.label = Str(value.text)], raised |-> "none",
             calls |-> <<"trigger_rendering">>]
       ELSE [d |-> [d EXCEPT !.label = Str(value.text)],
             raised |-> "AttributeError", calls |-> <<>>]
  ELSE [d |-> d, raised |-> "PglInvalidTypeException", calls |-> <<>>]

\* core.Sprite.from_text(label) with a label that is a str: it raises, or
\* takes the characters as a run without colours.
FromStrOutcomes == {"AttributeError", "none"}

\* LineInputDialog.render_to_buffer(): the buffer after it and the exception
\* it ended with.  A str has no attribute length.
LidRenderToBuffer(d, g, row, col, from_str) ==
  LET bordered == ~Borderless(d.config)
      offset == IF bordered THEN 1 ELSE 0
      b == [width |-> TextLength(d.label) + 2, height |-> 4,
            title |-> Str(<<>>), config |-> d.config]
      frame == IF bordered
               THEN BoxWrites(b, BoxBuildCache(b), row, col, Len(g),
                              Len(g[1]))
               ELSE <<>>
      run == IF d.label.type = "str" THEN PlainText(d.label.text) ELSE d.label
      lbl == SpriteWrites(FromText(run), row + offset, col + offset, Len(g),
                          Len(g[1]))
      inp == SpriteWrites(FromText(PlainText(<<">", " ">> \o d.user_input)),
                          row + 1 + offset, col + offset, Len(g), Len(g[1]))
  IN IF bordered /\ d.label.type = "str"
     THEN [buf |-> g, err |-> "AttributeError"]
     ELSE IF d.label.type = "str" /\ from_str # "none"
       THEN [buf |-> g, err |-> from_str]
     ELSE Assign(g, frame \o lbl \o inp, 1)

\* LineInputDialog(label, default, filter, config), label a str or a Text.
LidInit ==
  /\ dialog = "label"
  /\ IdleShow
  /\ IdleLine
  /\ IdleMulti
  /\ IdleBar
  /\ IdleBox
  /\ IdleProgress
  /\ IdleNew
  /\ IdleConfig
  /\ IdlePair
  /\ \E label \in Labels, d \in LineDefaults, config \in UiConfigs :
       lid = [label |-> IF label.type = "str" THEN PlainText(label.text)
                        ELSE label,
              user_input |-> d, config |-> config]
  /\ lid_op = [name |-> "init", arg |-> Other("")]
  /\ lid_at = <<0, 0>>
  /\ lid_grid = LidBlank

LidRest ==
  UNCHANGED <<dialog, showVars, lineVars, multiVars, barVars, boxVars,
              progVars, newVars, cfgVars, pairVars>>

\* dialog.render_to_buffer(buffer, row, column, ...) with a blank buffer.
LidRender ==
  /\ dialog = "label"
  /\ \E col \in 0..MaxAt, from_str \in FromStrOutcomes :
       LET r == LidRenderToBuffer(lid, LidBlank, 0, col, from_str)
       IN /\ lid_at' = <<0, col>>
          /\ lid_grid' = r.buf
          /\ raised' = r.err
  /\ calls' = <<>>
  /\ lid_op' = [name |-> "render", arg |-> Other("")]
  /\ UNCHANGED lid
  /\ LidRest

\* dialog.label = value (the buffer of an earlier render is gone).
LidSetLabel ==
  /\ dialog = "label"
  /\ \E value \in LabelValues :
       LET s == LabelSet(lid, value)
       IN /\ lid' = s.d
          /\ raised' = s.raised
          /\ calls' = s.calls
          /\ lid_op' = [name |-> "label", arg |-> value]
  /\ lid_at' = <<0, 0>>
  /\ lid_grid' = LidBlank
  /\ LidRest

\* ----------------------------------------------------------- specification
Init == LineInit \/ MultiInit

Next ==
  \/ LineShow
  \/ LineHandle
  \/ LinePoll
  \/ MultiSetFields
  \/ MultiSetFieldsBadType
  \/ MultiShow
  \/ MultiHandle
  \/ MultiPoll

Spec == Init /\ [][Next]_vars

BarNext ==
  \/ BarRender
  \/ BarSetValue
  \/ BarSetMaximum
  \/ BarSetProgressMarker
  \/ BarSetEmptyMarker
  \/ BarSetBadType
  \/ BarGetProgressMarker
  \/ BarGetEmptyMarker

SpecBar == BarInit /\ [][BarNext]_vars

BoxNext ==
  \/ BoxRender
  \/ BoxSetConfig
  \/ BoxSetTitle
  \/ BoxSetWidth
  \/ BoxSetHeight

SpecBox == BoxInit /\ [][BoxNext]_vars

ProgressNext ==
  \/ PdRender
  \/ PdSetLabel
  \/ PdSetValue
  \/ PdSetMaximum
  \/ PdSetConfig

SpecProgress == PdInit /\ [][ProgressNext]_vars

NewNext ==
  \/ NewUiConfig
  \/ NewBox
  \/ NewProgressBar
  \/ NewProgressDialog
  \/ NewLineInputDialog
  \/ NewMultiLineInputDialog

SpecNew == NewInit /\ [][NewNext]_vars

ConfigNext ==
  \/ ConfigNew
  \/ ConfigInstance

SpecConfig == ConfigInit /\ [][ConfigNext]_vars

PairNext ==
  \/ \E i \in Dialogs : PairNew(i)
  \/ \E i \in Dialogs : PairShow(i)
  \/ \E i \in Dialogs : PairKey(i)

SpecPair == PairInit /\ [][PairNext]_vars

LabelNext ==
  \/ LidRender
  \/ LidSetLabel

SpecLabel == LidInit /\ [][LabelNext]_vars

\* The loop of a running show() keeps executing: a pass over its body that
\* is possible is eventually made.
FairSpec == Spec /\ WF_vars(LineHandle) /\ WF_vars(MultiHandle)

\* ------------------------------------------------------------------ claims
RedrawThenUpdate == <<"trigger_rendering", "update">>

EndKeys == {"KEY_ENTER", "KEY_ESCAPE"}

EraseKeys == {"KEY_BACKSPACE", "KEY_DELETE"}

\* Whether a filter lets character k into a buffer, as the spec words it.
Lets(flt, k) ==
  \/ flt = "PRINTABLE_FILTER" /\ k \in {"a", "1"}
  \/ flt = "INTEGER_FILTER" /\ k = "1"

\* What one editing key makes of text under a filter, as the spec words it.
Edited(text, flt, k) ==
  IF k \in EraseKeys
    THEN (IF text = <<>> THEN <<>> ELSE SubSeq(text, 1, Len(text) - 1))
  ELSE IF Lets(flt, k) THEN text \o <<k>>
  ELSE text

\* The text a key sequence ks leaves of text, key by key.
RECURSIVE Typed(_, _, _)
Typed(text, flt, ks) ==
  IF ks = <<>> THEN text
  ELSE Typed(Edited(text, flt, Head(ks)), flt, Tail(ks))

\* C1: LineInputDialog.show() started with an empty buffer and the printable
\* filter, ended by Enter, returns the text its earlier keys type: accepted
\* characters appended, Backspace/Delete dropping the last character and
\* doing nothing to an empty buffer.
C1_EnterReturnsTypedText ==
  ( /\ dialog = "line"
    /\ pc = "done"
    /\ default = <<>>
    /\ filter = "PRINTABLE_FILTER"
    /\ keys[Len(keys)] = "KEY_ENTER" )
  => ret = Typed(<<>>, "PRINTABLE_FILTER", SubSeq(keys, 1, Len(keys) - 1))

\* a, 1, Backspace, Enter has returned "a".
C1_Witness ==
  /\ dialog = "line"
  /\ pc = "done"
  /\ default = <<>>
  /\ filter = "PRINTABLE_FILTER"
  /\ keys = <<"a", "1", "KEY_BACKSPACE", "KEY_ENTER">>
  /\ ret = <<"a">>

\* C2: whatever the default text and the keys before it, the first Escape
\* makes LineInputDialog.show() return "" and leaves user_input "".
C2_EscapeReturnsEmpty ==
  ( /\ dialog = "line"
    /\ pc = "done"
    /\ keys[Len(keys)] = "KEY_ESCAPE" )
  => ret = <<>> /\ user_input = <<>>

\* Escape after two characters typed onto a default text.
C2_Witness ==
  /\ dialog = "line"
  /\ pc = "done"
  /\ default = <<"a">>
  /\ filter = "PRINTABLE_FILTER"
  /\ keys = <<"1", "a", "KEY_ESCAPE">>
  /\ ret = <<>>
  /\ user_input = <<>>

\* C3: with the digit filter, handling a printable key that is no digit
\* leaves the buffer of the LineInputDialog as it was.
C3_DigitFilterKeepsBuffer ==
  [][ ( /\ dialog = "line"
        /\ filter = "INTEGER_FILTER"
        /\ pc = "loop"
        /\ inkey = "a" )
      => user_input' = user_input ]_vars

\* "a" was handled after "1" was typed onto the default text "a".
C3_Witness ==
  /\ dialog = "line"
  /\ filter = "INTEGER_FILTER"
  /\ pc = "poll"
  /\ keys = <<"1", "a">>
  /\ inkey = "a"
  /\ user_input = <<"a", "1">>

\* The key in inkey is one whose handling changes the dialog.
MutationKey ==
  \/ /\ dialog = "line"
     /\ inkey \in EraseKeys \/ Lets(filter, inkey)
  \/ /\ dialog = "multi"
     /\ current_field < Len(fields)
     /\ \/ inkey = "KEY_TAB"
        \/ inkey \in EraseKeys
        \/ Lets(fields[current_field + 1].filter, inkey)

\* C4: in both show() loops, handling a mutation key (accepted character,
\* Backspace/Delete, Tab in the multi-field dialog) goes on to the poll having
\* called trigger_rendering() and then update(), and the next key is polled
\* only with those two calls made since the key before it was read.
C4_RedrawBeforeNextPoll ==
  [][ /\ (pc = "loop" /\ MutationKey)
         => (pc' = "poll" /\ calls' = RedrawThenUpdate)
      /\ (pc = "poll" /\ pc' = "loop" /\ MutationKey)
         => calls = RedrawThenUpdate ]_vars

\* A Tab has been handled and redrawn, and the loop is about to poll.
C4_Witness ==
  /\ dialog = "multi"
  /\ pc = "poll"
  /\ inkey = "KEY_TAB"
  /\ current_field = 1
  /\ calls = RedrawThenUpdate

\* C5: show() returns only on handling Enter or Escape, returns on the first
\* one it reads and reads no key after it; a poll that timed out changes
\* nothing of the dialog and the loop polls again; and once Enter or Escape
\* has been read show() does return.
C5_ReturnsOnFirstEndKey ==
  /\ [][ /\ (pc' = "done" /\ pc # "done")
            => (pc = "loop" /\ inkey \in EndKeys)
         /\ (pc = "loop" /\ inkey \in EndKeys)
            => (pc' = "done" /\ inkey' = inkey)
         /\ pc = "done"
            => (inkey' = inkey \/ (pc' = "loop" /\ inkey' = ""))
         /\ (pc = "loop" /\ inkey = "")
            => ( /\ pc' = "poll"
                 /\ UNCHANGED <<default, user_input, filter, fields,
                                current_field, ret, raised>> ) ]_vars
  /\ (pc = "loop" /\ inkey \in EndKeys) ~> (pc = "done")

\* show() has returned on an Enter read after other keys.
C5_Witness ==
  /\ dialog = "line"
  /\ pc = "done"
  /\ inkey = "KEY_ENTER"
  /\ Len(keys) >= 3
  /\ ret = user_input

\* Where n Tabs in a row take the current-field index c of nf fields.
RECURSIVE AfterTabs(_, _, _)
AfterTabs(c, nf, n) ==
  IF n = 0 THEN c ELSE AfterTabs(NextField(c, nf), nf, n - 1)

\* C6: with N >= 1 fields, handling Tab sets current_field to
\* (current_field + 1) mod N, changes no field and goes on polling; N Tabs
\* in a row take current_field back to what it was before them.
C6_TabCycles ==
  [][ (dialog = "multi" /\ pc = "loop" /\ Len(fields) > 0)
      => ( /\ inkey = "KEY_TAB"
              => ( /\ current_field' = (current_field + 1) % Len(fields)
                   /\ fields' = fields
                   /\ pc' = "poll" )
           /\ AfterTabs(current_field, Len(fields), Len(fields))
                = current_field ) ]_vars

\* A third Tab in a row was handled in a three-field dialog: the index,
\* 2 before it, is 0 again.
C6_Witness ==
  /\ dialog = "multi"
  /\ Len(fields) = 3
  /\ pc = "poll"
  /\ inkey = "KEY_TAB"
  /\ current_field = 0

\* C7: handling an editing key in MultiLineInputDialog.show() edits the
\* buffer of the field at current_field by that field's own filter and
\* leaves every other field, and the number of fields, as they were.
C7_EditsOnlyCurrentField ==
  [][ ( /\ dialog = "multi"
        /\ pc = "loop"
        /\ inkey \in EraseKeys \cup {"a", "1"} )
      => ( /\ Len(fields') = Len(fields)
           /\ \A i \in 1..Len(fields) :
                IF i = current_field + 1
                  THEN /\ fields'[i].user_input =
                            Edited(fields[i].user_input, fields[i].filter, inkey)
                       /\ fields'[i].filter = fields[i].filter
                       /\ fields'[i].default = fields[i].default
                  ELSE fields'[i] = fields[i] ) ]_vars

\* "a" typed into field 1 of three; fields 0 and 2 still hold their default.
C7_Witness ==
  /\ dialog = "multi"
  /\ Len(fields) = 3
  /\ pc = "poll"
  /\ inkey = "a"
  /\ current_field = 1
  /\ fields[2].user_input = <<"a">>
  /\ fields[1].user_input = <<"1">>
  /\ fields[3].user_input = <<"1">>

\* C8: handling Escape in MultiLineInputDialog.show() empties the buffer of
\* every field, whatever current_field is, and show() returns.
C8_EscapeClearsAllFields ==
  [][ ( /\ dialog = "multi"
        /\ pc = "loop"
        /\ inkey = "KEY_ESCAPE" )
      => ( /\ pc' = "done"
           /\ Len(fields') = Len(fields)
           /\ \A i \in 1..Len(fields) : fields'[i].user_input = <<>> ) ]_vars

\* Escape read at field 1 of three fields that all held text.
C8_Witness ==
  /\ dialog = "multi"
  /\ pc = "done"
  /\ inkey = "KEY_ESCAPE"
  /\ Len(fields) = 3
  /\ current_field = 1
  /\ \A i \in 1..3 : fields[i].default = <<"1">> /\ fields[i].user_input = <<>>

\* C9: the current-field index of a MultiLineInputDialog is always an index
\* of its field list: 0 <= current_field < number of fields.
C9_CurrentFieldInRange ==
  dialog = "multi" => (0 <= current_field /\ current_field < Len(fields))

\* C10: with maximum > 0, render_to_buffer writes the width cells from
\* column on and no other: the first min(floor(value*width/maximum), width)
\* of them get the filled cell, the others the empty cell.
C10_RenderWritesExactlyTheBar ==
  (dialog = "bar" /\ op = "render" /\ pb.maximum > 0)
  => LET fill == Min((pb.value * pb.width) \div pb.maximum, pb.width) IN
     /\ raised = "none"
     /\ \A i \in 0..(BufWidth - 1) :
          buffer[i + 1] =
            IF column <= i /\ i < column + pb.width
              THEN (IF i < column + fill THEN "pb_progress" ELSE "pb_empty")
              ELSE ""

\* The same for the bars whose value is not negative.
BarOfValueAtLeastZero ==
  (dialog = "bar" /\ pb.value >= 0) => C10_RenderWritesExactlyTheBar

\* C11: rendering a ProgressBar whose maximum is 0 ends with the error the
\* library defines for it, not with the arithmetic fault of the division (and
\* not with a fill), and writes no cell.
C11_ZeroMaximumRaisesDomainError ==
  (dialog = "bar" /\ op = "render" /\ pb.maximum = 0)
  => ( /\ raised \notin {"none", "ZeroDivisionError"}
       /\ buffer = Blank )

\* The part of it that holds: no cell is written.
ZeroMaximumWritesNothing ==
  (dialog = "bar" /\ op = "render" /\ pb.maximum = 0) => buffer = Blank

\* ------------------------------------------------------------- Box claims
BoxRendered == dialog = "box" /\ box_op.name = "render" /\ raised = "none"

\* The cell at row r, column c of the buffer of the last render.
CellAt(r, c) == grid[r + 1][c + 1]

BorderCell(name) ==
  Sprixel(Attr(box.config, name), Attr(box.config, "border_bg_color"),
          Attr(box.config, "border_fg_color"))

CornerNames ==
  {"box_top_left_corner", "box_top_right_corner", "box_bottom_left_corner",
   "box_bottom_right_corner"}

IsCorner(cell) == \E name \in CornerNames : cell = BorderCell(name)

TitleLen == Len(box.title.text)

\* C12: a rendered Box with an empty title, width >= 2 and height >= 2 has
\* in its top and bottom row width - 2 horizontal-border cells between two
\* corner cells, in every side row the vertical-border cell at its first and
\* its last column, and no other cell of the buffer is written.
C12_EmptyTitleFrame ==
  (BoxRendered /\ TitleLen = 0 /\ box.width >= 2 /\ box.height >= 2)
  => \A r \in 0..(BoxBufHeight - 1), c \in 0..(BoxBufWidth - 1) :
       LET rr == r - at[1]
           cc == c - at[2]
           ends == rr \in {0, box.height - 1}
           edges == cc \in {0, box.width - 1}
       IN IF ends /\ edges THEN IsCorner(CellAt(r, c))
          ELSE IF ends /\ 0 < cc /\ cc < box.width - 1
            THEN CellAt(r, c) = BorderCell("box_horizontal_border")
          ELSE IF edges /\ 0 < rr /\ rr < box.height - 1
            THEN CellAt(r, c) = BorderCell("box_vertical_border")
          ELSE CellAt(r, c) = NoCell

C12_Witness ==
  /\ BoxRendered /\ TitleLen = 0 /\ box.width = 10 /\ box.height = 3
  /\ at = <<0, 0>>
  /\ \A c \in 1..8 : CellAt(0, c) = BorderCell("box_horizontal_border")
  /\ CellAt(1, 0) = BorderCell("box_vertical_border")
  /\ CellAt(1, 9) = BorderCell("box_vertical_border")
  /\ CellAt(1, 1) = NoCell

\* The top row between the corners: `left` horizontal-border cells, the
\* cells of the title, horizontal-border cells up to the second corner.
TopRowSplit(left) ==
  \A cc \in 1..(box.width - 2) :
    LET cell == CellAt(at[1], at[2] + cc)
    IN IF cc <= left \/ cc > left + TitleLen
       THEN cell = BorderCell("box_horizontal_border")
       ELSE cell.model = box.title.text[cc - left]

\* A title between the corners of a Box whose top row is not its bottom row
\* (in a Box of height 1 the bottom row is drawn over the title).
TitleFits ==
  BoxRendered /\ TitleLen >= 1 /\ TitleLen <= box.width - 2 /\ box.height >= 2

\* C13 as stated (checked for Boxes at least 2 high): between the corners of
\* the top row there are
\* round(w/2 - t/2) horizontal-border cells, the t cells of the title and
\* w - 2 - t - round(w/2 - t/2) horizontal-border cells (9, 2 and 7 for
\* w = 20 and "Hi").
C13_TitleSplitByRound == TitleFits => TopRowSplit(RoundHalf(box.width - TitleLen))

\* C13, amended: in a Box at least 2 high the title starts int(w/2 - 1 - t/2) cells after the first
\* corner: that many horizontal-border cells are left of it and the
\* remaining w - 2 - t - int(w/2 - 1 - t/2) right of it (8, 2 and 8 for
\* w = 20 and "Hi").
C13_TitleSplitByOffset ==
  TitleFits => TopRowSplit(((box.width - TitleLen) \div 2) - 1)

C13_Witness ==
  /\ TitleFits /\ box.width = 20 /\ box.title.text = <<"H", "i">>
  /\ at = <<0, 0>>
  /\ \A c \in 1..8 : CellAt(0, c) = BorderCell("box_horizontal_border")
  /\ CellAt(0, 9).model = "H" /\ CellAt(0, 10).model = "i"
  /\ \A c \in 11..18 : CellAt(0, c) = BorderCell("box_horizontal_border")
  /\ IsCorner(CellAt(0, 19))

\* C14: a render of a Box that fits in the buffer at (row, column) writes
\* only cells on the perimeter of [row, row + height) x [column, column +
\* width), whatever width, height and title the Box was given.
C14_WritesOnlyPerimeter ==
  (dialog = "box" /\ box_op.name = "render")
  => \A r \in 0..(BoxBufHeight - 1), c \in 0..(BoxBufWidth - 1) :
       LET rr == r - at[1]
           cc == c - at[2]
       IN CellAt(r, c) # NoCell
            => /\ 0 <= rr /\ rr < box.height
               /\ 0 <= cc /\ cc < box.width
               /\ (rr \in {0, box.height - 1} \/ cc \in {0, box.width - 1})

\* Where it holds: both sizes at least 1 and a title that fits between the
\* corners.
PerimeterWhenTitleFits ==
  (box.width >= 1 /\ box.height >= 1
     /\ (TitleLen = 0 \/ TitleLen <= box.width - 2))
  => C14_WritesOnlyPerimeter

BoxSetters == {"width", "height", "title", "config"}

AcceptedType(o) ==
  \/ o.name \in {"width", "height"} /\ o.type = "int"
  \/ o.name = "title" /\ o.type \in {"str", "Text"}
  \/ o.name = "config" /\ o.type = "UiConfig"

\* The cache is the one of configuration b.config and title b.title: the two
\* border cells and the four corner cells carry glyphs and colours of the
\* configuration, the title run the characters of the title.
CacheMatches(cache, b) ==
  LET Cell(name) ==
        Sprixel(Attr(b.config, name), Attr(b.config, "border_bg_color"),
                Attr(b.config, "border_fg_color"))
  IN /\ cache.dialog_vertical_border = Cell("box_vertical_border")
     /\ cache.dialog_horizontal_border = Cell("box_horizontal_border")
     /\ {cache.top_left_corner, cache.top_right_corner,
         cache.bottom_left_corner, cache.bottom_right_corner}
          = {Cell(name) : name \in CornerNames}
     /\ cache.title.text = b.title.text
     /\ Len(cache.title_sprite) = Len(b.title.text)
     /\ \A i \in 1..Len(b.title.text) :
          cache.title_sprite[i].model = b.title.text[i]

\* C15: when a Box setter returns, the cache is the one of the current
\* configuration and title; a setter given a value of a wrong type raises
\* PglInvalidTypeException and leaves width, height, title, configuration
\* and cache as they were.
C15_CacheFollowsSetters ==
  [][(dialog' = "box" /\ box_op'.name \in BoxSetters)
       => IF AcceptedType(box_op')
          THEN raised' = "none" /\ CacheMatches(box_cache', box')
          ELSE raised' = "PglInvalidTypeException"
                 /\ UNCHANGED <<box, box_cache>>]_vars

C15_Witness ==
  /\ dialog = "box"
  /\ box_op = [name |-> "title", type |-> "str"]
  /\ box.title = Str(<<"H", "i">>)
  /\ box.config = "cfg2"
  /\ box_cache.title.text = <<"H", "i">>
  /\ box_cache.title.fg_color = "cfg2.border_fg_color"
  /\ box_cache.dialog_vertical_border.model = "cfg2.box_vertical_border"

\* -------------------------------------------------- ProgressDialog claims
\* C16: once a render of a ProgressDialog with destroy_on_complete has seen
\* value == maximum (its __destroy flag is set from then on), every later
\* render asks the screen to delete the dialog and writes no cell.
C16_DestroyedDialogDrawsNothing ==
  [][(dialog = "progress" /\ pd.destroy /\ pd_op'.name = "render")
       => /\ calls' = <<"delete">>
          /\ pd_grid' = PdBlank
          /\ pd'.destroy]_vars

\* The part of it that holds: the delete request is made, by every later
\* render.
DestroyedDialogAsksForDelete ==
  [][(dialog = "progress" /\ pd.destroy /\ pd_op'.name = "render")
       => calls' = <<"delete">> /\ pd'.destroy]_vars

\* C17: a ProgressDialog with adaptive_width is as wide as its label has
\* characters, and so is its inner progress bar, after construction and
\* after every label set.
C17_AdaptiveWidthIsLabelLength ==
  (dialog = "progress" /\ pd.adaptive_width)
  => /\ pd.width = Len(pd.label.text)
     /\ pd_cache.pb.width = Len(pd.label.text)

C17_Witness ==
  /\ dialog = "progress" /\ pd.adaptive_width
  /\ pd_op = [name |-> "label", type |-> "str"]
  /\ raised = "none"
  /\ pd.label = Str(<<"H", "i", "!">>)
  /\ pd.width = 3
  /\ pd_cache.pb.width = 3

\* C18: the inner ProgressBar of a ProgressDialog has the value, maximum,
\* width and configuration of the dialog, after any label, value, maximum
\* and config sets.
C18_InnerBarFollowsDialog ==
  dialog = "progress"
  => /\ pd_cache.pb.value = pd.value
     /\ pd_cache.pb.maximum = pd.maximum
     /\ pd_cache.pb.width = pd.width
     /\ pd_cache.pb.config = pd.config

\* The part of it that holds: value, maximum and width.
InnerBarFollowsButForConfig ==
  dialog = "progress"
  => /\ pd_cache.pb.value = pd.value
     /\ pd_cache.pb.maximum = pd.maximum
     /\ pd_cache.pb.width = pd.width

\* ----------------------------------------------------- ProgressBar setters
BarSetters == {"value", "maximum", "progress_marker", "empty_marker"}

\* The setter named o takes a value of the type t.
BarAccepts(o, t) ==
  \/ o \in {"value", "maximum"} /\ t = "int"
  \/ o \in {"progress_marker", "empty_marker"} /\ t \in {"str", "Text"}

\* What C19 says of one step of a ProgressBar.
RequestExactlyOnAcceptedSet ==
  /\ op' \in BarSetters /\ BarAccepts(op', arg')
       => calls' = <<"trigger_rendering">> /\ raised' = "none"
  /\ op' \in BarSetters /\ ~BarAccepts(op', arg')
       => /\ raised' = "PglInvalidTypeException"
          /\ calls' = <<>>
          /\ UNCHANGED <<pb, pb_style>>
  /\ op' \notin BarSetters => calls' = <<>>

\* C19: a ProgressBar asks the screen for a rendering exactly when a set of
\* value, maximum, progress_marker or empty_marker is accepted, once; a set
\* with a value of a wrong type raises PglInvalidTypeException, changes
\* neither value nor maximum nor the markers, and asks for nothing.
C19_RequestExactlyOnAcceptedSet ==
  [][dialog' = "bar" => RequestExactlyOnAcceptedSet]_vars

\* Where it holds: the bar was constructed with a UiConfig.
RequestOnAcceptedSetWithConfig ==
  [][(dialog' = "bar" /\ HasAttributes(pb_style.config))
       => RequestExactlyOnAcceptedSet]_vars

\* ------------------------------------------------------------ constructors
Widgets ==
  {"Box", "ProgressBar", "ProgressDialog", "LineInputDialog",
   "MultiLineInputDialog"}

\* C20: a widget constructor given no config, or a config that is no
\* UiConfig, raises PglInvalidTypeException and yields no widget; so does
\* UiConfig given no game.
C20_BadConfigRaisesInvalidType ==
  (new_op.class \in Widgets \cup {"UiConfig"}
     /\ new_op.config \notin {"UiConfig", "Game"})
  => raised = "PglInvalidTypeException" /\ made = NoObject

\* Where it holds: the three dialogs and UiConfig.
DialogsRejectBadConfig ==
  new_op.class \notin {"Box", "ProgressBar"} => C20_BadConfigRaisesInvalidType

\* ---------------------------------------------------------------- UiConfig
\* The objects that exist keep their identity and their arguments.
ObjectsKept == \A i \in 1..Len(configs) : configs'[i] = configs[i]

\* The call made a new object out of its arguments.
NewObject(o) ==
  /\ o = Len(configs) + 1
  /\ Len(configs') = o
  /\ configs'[o] = [game |-> cfg_op'.args.game,
                    borderless_dialog |-> cfg_op'.args.borderless_dialog]

\* What C21 says of one call.
SharedInstanceStep ==
  /\ ObjectsKept
  /\ (cfg_op'.name = "instance" /\ instance # None)
       => /\ cfg_ret' = instance
          /\ instance' = instance
          /\ configs' = configs
          /\ raised' = "none"
  /\ (cfg_op'.name = "instance" /\ instance = None /\ raised' = "none")
       => /\ NewObject(instance')
          /\ cfg_ret' = instance'
  /\ (cfg_op'.name = "instance" /\ instance = None /\ raised' # "none")
       => instance' = None /\ configs' = configs
  /\ cfg_op'.name = "UiConfig"
       => /\ instance' = instance
          /\ raised' = "none" => NewObject(cfg_ret') /\ cfg_ret' # instance

\* C21: every UiConfig.instance() call returns the object made by the first
\* instance() call that succeeded, which keeps the arguments of that call;
\* a direct UiConfig(...) yields another object and leaves the shared
\* instance alone; an instance() call that raises stores no instance.
C21_OneSharedInstance ==
  [][dialog' = "config" => SharedInstanceStep]_vars

\* instance() was called with other arguments than the ones of the stored
\* instance, which was made after one direct construction and before
\* another.
C21_Witness ==
  /\ dialog = "config"
  /\ cfg_op.name = "instance"
  /\ Len(configs) = 3
  /\ instance = 2
  /\ cfg_ret = 2
  /\ cfg_op.args.game \notin {"None", configs[2].game}
  /\ cfg_op.args.borderless_dialog # configs[2].borderless_dialog

\* ------------------------------------------- two MultiLineInputDialogs
\* The dialog d exists and was constructed without a fields argument.
MadeWithoutFields(d) == d.made /\ d.fields = DefaultList

\* The field buffers of the dialog d: "user_input" of each of its fields.
Buffers(heap, d) ==
  [n \in DOMAIN heap[d.fields] |-> heap[d.fields][n].user_input]

\* The step is an operation on the dialog j (its construction, show() or a
\* key in its show()) and keeps the buffers of the other dialog i.
KeepsTheOther(i, j) ==
  (pair_op'.dialog = j /\ dlgs[i].made)
    => Buffers(lists', dlgs'[i]) = Buffers(lists, dlgs[i])

\* C22: of two MultiLineInputDialogs constructed without a fields argument,
\* constructing one, typing into it or pressing Escape in it never changes
\* a field buffer of the other.
C22_DefaultFieldsNotShared ==
  [][\A i, j \in Dialogs :
       (i # j /\ MadeWithoutFields(dlgs[i]) /\ MadeWithoutFields(dlgs'[j]))
         => KeepsTheOther(i, j)]_vars

\* Where it holds: one of the two was given a list of its own.
OwnFieldsNotShared ==
  [][\A i, j \in Dialogs :
       (i # j /\ dlgs'[j].made
          /\ ~(MadeWithoutFields(dlgs[i]) /\ MadeWithoutFields(dlgs'[j])))
         => KeepsTheOther(i, j)]_vars

\* ------------------------------------------------------------- Box corners
\* Each corner of the last render holds the glyph configured for it.
CornersInPlace ==
  LET top == at[1]
      left == at[2]
      bottom == at[1] + box.height - 1
      right == at[2] + box.width - 1
  IN /\ CellAt(top, left) = BorderCell("box_top_left_corner")
     /\ CellAt(top, right) = BorderCell("box_top_right_corner")
     /\ CellAt(bottom, left) = BorderCell("box_bottom_left_corner")
     /\ CellAt(bottom, right) = BorderCell("box_bottom_right_corner")

\* C23: a rendered Box with width >= 2 and height >= 2 has each configured
\* corner glyph on its own corner: box_top_left_corner at (row, column),
\* box_top_right_corner at (row, column + width - 1), box_bottom_left_corner
\* at (row + height - 1, column) and box_bottom_right_corner at
\* (row + height - 1, column + width - 1).
C23_CornersOnOwnCorners ==
  (BoxRendered /\ box.width >= 2 /\ box.height >= 2) => CornersInPlace

\* Where it holds: the title is shorter than the Box is wide.
CornersWhenTitleShorter ==
  (BoxRendered /\ box.width >= 2 /\ box.height >= 2 /\ TitleLen < box.width)
    => CornersInPlace

\* ------------------------------------------- LineInputDialog: the label
\* What C24 says of one operation on the dialog.
LabelSetStep ==
  /\ (lid_op'.name = "label" /\ lid_op'.arg.type \in {"str", "Text"})
       => /\ raised' = "none"
          /\ calls' = <<"trigger_rendering">>
          /\ lid'.label.text = lid_op'.arg.text
  /\ (lid_op'.name = "label" /\ lid_op'.arg.type \notin {"str", "Text"})
       => raised' = "PglInvalidTypeException"
  /\ lid_op'.name = "render" => raised' = "none"

\* C24: LineInputDialog.label = value with a str or a Text raises nothing,
\* asks the screen for a rendering and leaves the dialog with the new label,
\* and the dialog can be rendered afterwards; only a value of another type
\* raises PglInvalidTypeException.
C24_LabelSetAccepted ==
  [][dialog' = "label" => LabelSetStep]_vars

\* What holds: the dialog can be rendered as long as its label was not set,
\* a value of another type is refused and changes nothing, and a str or a
\* Text is stored as the new label.
LabelSetStoresAndRefuses ==
  [][dialog' = "label" =>
       /\ (lid_op'.name = "label" /\ lid_op'.arg.type \in {"str", "Text"})
            => lid'.label.text = lid_op'.arg.text
       /\ (lid_op'.name = "label" /\ lid_op'.arg.type \notin {"str", "Text"})
            => raised' = "PglInvalidTypeException" /\ lid' = lid
       /\ (lid_op'.name = "render" /\ lid.label.type = "Text")
            => raised' = "none"]_vars

\* ----------------------------------------------------- ProgressBar markers
\* The markers the bar was given last, by its constructor or by a setter (a
\* Text is kept as its text).
LastSet(name) == pb_style[name]

\* The last operation was an accepted set of the marker called name.
MarkerSet(name) == op' = name /\ raised' = "none"

\* C25: reading empty_marker returns the last value set to empty_marker, or
\* the constructor's empty marker if none was set; reading progress_marker
\* returns the last value set to progress_marker; setting one marker never
\* changes what the other reads.
C25_MarkersRoundTrip ==
  [][dialog' = "bar" =>
       /\ op' = "get_empty_marker" => got' = LastSet("empty_marker")
       /\ op' = "get_progress_marker" => got' = LastSet("progress_marker")
       /\ MarkerSet("progress_marker")
            => GetEmptyMarker(pb_style') = GetEmptyMarker(pb_style)
       /\ MarkerSet("empty_marker")
            => GetProgressMarker(pb_style') = GetProgressMarker(pb_style)]_vars

\* Where it holds: the progress marker.
ProgressMarkerRoundTrips ==
  [][dialog' = "bar" =>
       /\ op' = "get_progress_marker" => got' = LastSet("progress_marker")
       /\ MarkerSet("empty_marker")
            => GetProgressMarker(pb_style') = GetProgressMarker(pb_style)]_vars

=============================================================================
